---------------------------- MODULE Spec2Model ----------------------------
(***************************************************************************)
(* BioSat-Q+ backend: the BB84 session simulation, the process-wide key    *)
(* buffer it feeds, the AES-GCM helpers keyed from the buffer, and the     *)
(* FastAPI handlers run_qkd, ingest and status that share the buffer.      *)
(*                                                                         *)
(* Conventions.                                                            *)
(*  - A Python str or bytes value is a sequence; a character is a          *)
(*    one-character string, a key byte is a number 0..255.                 *)
(*  - A real in [0,1] is an integer number of millionths (ppm).            *)
(*  - A call that may raise returns [ok |-> TRUE, val |-> v] or            *)
(*    [ok |-> FALSE, exc |-> name].                                        *)
(*  - The handlers are coroutines of one asyncio event loop: a handler     *)
(*    runs without interruption from one await to the next.                *)
(***************************************************************************)
EXTENDS Integers, Sequences, FiniteSets, TLC

\* ------------------------------------------------------------------------
\* Bounds of the model
\* ------------------------------------------------------------------------
MaxSessions == 2
MaxIngests == 2

\* photons of a transmit_bb84 call made on its own
MaxPhotons == 7

\* key characters past the 128th in a cipher call made on its own
MaxExtraKeyBits == 16

\* ------------------------------------------------------------------------
\* Generic helpers
\* ------------------------------------------------------------------------
Million == 1000 * 1000

Ok(v) == [ok |-> TRUE, val |-> v]

Raise(e) == [ok |-> FALSE, exc |-> e]

Max(a, b) == IF a >= b THEN a ELSE b

Min(a, b) == IF a <= b THEN a ELSE b

\* s[:k] of Python, for 0 <= k
Take(s, k) == SubSeq(s, 1, Min(k, Len(s)))

\* s[k:] of Python, for 0 <= k
Drop(s, k) == SubSeq(s, Min(k, Len(s)) + 1, Len(s))

\* the concatenation of ss[lo], ..., ss[hi]
RECURSIVE ConcatRange(_, _, _)
ConcatRange(ss, lo, hi) ==
    IF lo > hi THEN <<>>
    ELSE IF lo = hi THEN ss[lo]
    ELSE LET mid == (lo + hi) \div 2
         IN  ConcatRange(ss, lo, mid) \o ConcatRange(ss, mid + 1, hi)

\* ''.join(ss)
Concat(ss) == ConcatRange(ss, 1, Len(ss))

\* the i in lo..hi with keep[i], ascending
RECURSIVE SelectRange(_, _, _)
SelectRange(keep, lo, hi) ==
    IF lo > hi THEN <<>>
    ELSE IF lo = hi THEN (IF keep[lo] THEN <<lo>> ELSE <<>>)
    ELSE LET mid == (lo + hi) \div 2
         IN  SelectRange(keep, lo, mid) \o SelectRange(keep, mid + 1, hi)

\* F(v) with v evaluated once, before F is entered
Bind(v, F(_)) == CHOOSE r \in {F(x) : x \in {v}} : TRUE

\* the sequence f with its elements evaluated
Strict(f) == SubSeq(f, 1, Len(f))

IsPrefix(p, s) == Len(p) <= Len(s) /\ SubSeq(s, 1, Len(p)) = p

\* ------------------------------------------------------------------------
\* crypto_utils.py
\* ------------------------------------------------------------------------
KEY_LENGTH_BYTES == 16

NONCE_BYTES == 12

TAG_BYTES == 16

BinaryChars == {"0", "1"}

BitVal(c) == IF c = "1" THEN 1 ELSE 0

\* int(bits, 2).to_bytes(n, "big"), byte j (1-based): the value of the j-th
\* group of eight characters, most significant bit first.
BigEndianByte(bits, j) ==
    LET b(k) == BitVal(bits[8 * (j - 1) + k])
    IN  128 * b(1) + 64 * b(2) + 32 * b(3) + 16 * b(4)
        + 8 * b(5) + 4 * b(6) + 2 * b(7) + b(8)

\* bits_to_bytes without the length check of lines 6-7: int(.., 2) of a
\* short string still fits the bytes asked for
bits_to_bytes_unchecked(key_bits, length_bytes) ==
    LET needed == length_bytes * 8
        head == Take(key_bits, needed)
        padded == [i \in 1..(needed - Len(head)) |-> "0"] \o head
    IN  IF \E i \in 1..Len(head) : head[i] \notin BinaryChars
        THEN Raise("ValueError: invalid literal for int() with base 2")
        ELSE Ok([j \in 1..length_bytes |-> BigEndianByte(padded, j)])

\* bits_to_bytes(key_bits, length_bytes): ValueError when the string is too
\* short, and (from int(.., 2)) when a character is not a binary digit.
bits_to_bytes(key_bits, length_bytes) ==
    LET needed == length_bytes * 8
    IN  IF Len(key_bits) < needed
        THEN Raise("ValueError: Not enough key bits")
        ELSE IF \E i \in 1..needed : key_bits[i] \notin BinaryChars
        THEN Raise("ValueError: invalid literal for int() with base 2")
        ELSE Ok([j \in 1..length_bytes |-> BigEndianByte(key_bits, j)])

\* AESGCM(key).encrypt(nonce, plaintext, None) of the cryptography package,
\* as a symbolic cipher: ciphertext byte i is a function of key, nonce,
\* position and plaintext byte; the 16 tag bytes are a function of key,
\* nonce and the whole plaintext.
CipherByte(key, nonce, i, p) == [kind |-> "ct", k |-> key, n |-> nonce, i |-> i, p |-> p]

TagByte(key, nonce, j, pt) == [kind |-> "tag", k |-> key, n |-> nonce, i |-> j, p |-> pt]

AESGCM_tag(key, nonce, pt) == [j \in 1..TAG_BYTES |-> TagByte(key, nonce, j, pt)]

AESGCM_encrypt(key, nonce, pt) ==
    [i \in 1..Len(pt) |-> CipherByte(key, nonce, i, pt[i])] \o AESGCM_tag(key, nonce, pt)

\* AESGCM(key).decrypt(nonce, data, None): InvalidTag unless data is a
\* ciphertext and tag made with this key and nonce.
AESGCM_decrypt(key, nonce, data) ==
    IF Len(data) < TAG_BYTES
    THEN Raise("InvalidTag")
    ELSE Bind(Len(data) - TAG_BYTES, LAMBDA m :
         Bind(Strict([i \in 1..m |-> data[i].p]), LAMBDA pt :
             IF SubSeq(data, 1, m) \o SubSeq(data, m + 1, Len(data))
                    = AESGCM_encrypt(key, nonce, pt)
             THEN Ok(pt)
             ELSE Raise("InvalidTag")))

\* aesgcm_encrypt_with_bits returning ct alone, the nonce not prepended
aesgcm_encrypt_without_nonce(key_bits, plaintext_bytes, nonce) ==
    Bind(bits_to_bytes(key_bits, KEY_LENGTH_BYTES), LAMBDA key :
        IF ~key.ok THEN key
        ELSE Ok(AESGCM_encrypt(key.val, nonce, plaintext_bytes)))

\* aesgcm_encrypt_with_bits(key_bits, plaintext_bytes); nonce is the value
\* os.urandom(12) returns.
aesgcm_encrypt_with_bits(key_bits, plaintext_bytes, nonce) ==
    Bind(bits_to_bytes(key_bits, KEY_LENGTH_BYTES), LAMBDA key :
        IF ~key.ok THEN key
        ELSE Ok(nonce \o AESGCM_encrypt(key.val, nonce, plaintext_bytes)))

\* aesgcm_decrypt_with_bits(key_bits, ciphertext_bytes)
aesgcm_decrypt_with_bits(key_bits, ciphertext_bytes) ==
    Bind(bits_to_bytes(key_bits, KEY_LENGTH_BYTES), LAMBDA key :
        IF ~key.ok THEN key
        ELSE Bind(Take(ciphertext_bytes, NONCE_BYTES), LAMBDA nonce :
             Bind(Drop(ciphertext_bytes, NONCE_BYTES), LAMBDA ct :
                 AESGCM_decrypt(key.val, nonce, ct))))

\* ------------------------------------------------------------------------
\* JSON values and the json / str codecs the ingest handler uses
\* ------------------------------------------------------------------------
JNum(lit) == [t |-> "num", lit |-> lit, items |-> <<>>]

JStr(chars) == [t |-> "str", lit |-> chars, items |-> <<>>]

\* a list of scalars
JArr(elems) == [t |-> "arr", lit |-> <<>>, items |-> elems]

\* a dict: a sequence of <<key, scalar>> pairs in insertion order
JObj(pairs) == [t |-> "obj", lit |-> <<>>, items |-> pairs]

Quote == <<"\"">>

json_dumps_scalar(v) == IF v.t = "str" THEN Quote \o v.lit \o Quote ELSE v.lit

RECURSIVE JoinItems(_, _)
JoinItems(texts, sep) ==
    IF texts = <<>> THEN <<>>
    ELSE IF Len(texts) = 1 THEN texts[1]
    ELSE texts[1] \o sep \o JoinItems(Tail(texts), sep)

\* json.dumps(data) with the default separators ", " and ": "
json_dumps(v) ==
    CASE v.t = "arr" ->
           <<"[">> \o JoinItems([i \in 1..Len(v.items) |-> json_dumps_scalar(v.items[i])],
                                <<",", " ">>) \o <<"]">>
      [] v.t = "obj" ->
           <<"{">> \o JoinItems([i \in 1..Len(v.items) |->
                                   Quote \o v.items[i][1] \o Quote \o <<":", " ">>
                                   \o json_dumps_scalar(v.items[i][2])],
                                <<",", " ">>) \o <<"}">>
      [] OTHER -> json_dumps_scalar(v)

\* The JSON bodies a client sends in this model.
Lit75 == <<"7", "5">>

Lit98 == <<"9", "8">>

Lit365 == <<"3", "6", ".", "5">>

KeyHr == <<"h", "r">>

KeySpo2 == <<"s", "p", "o", "2">>

KeyTemp == <<"t", "e", "m", "p">>

TelemetryRecord == JObj(<< <<KeyHr, JNum(Lit75)>>, <<KeySpo2, JNum(Lit98)>>, <<KeyTemp, JNum(Lit365)>> >>)

PartialRecord == JObj(<< <<KeyHr, JNum(<<"1", "2", "0">>)>> >>)

TextFieldRecord == JObj(<< <<KeyHr, JStr(<<"a", "b", "c">>)>> >>)

ListPayload == JArr(<<JNum(<<"1">>)>>)

JsonPayloads == {TelemetryRecord, PartialRecord, TextFieldRecord, ListPayload}

\* json.loads(text): the value whose serialisation text is, JSONDecodeError
\* when text is the serialisation of no value.
json_loads(text) ==
    IF \E d \in JsonPayloads : json_dumps(d) = text
    THEN Ok(CHOOSE d \in JsonPayloads : json_dumps(d) = text)
    ELSE Raise("JSONDecodeError")

\* ASCII codes of the characters json.dumps emits for JsonPayloads
Ascii ==
    (" " :> 32) @@ ("\"" :> 34) @@ ("," :> 44) @@ ("." :> 46) @@ ("0" :> 48)
    @@ ("1" :> 49) @@ ("2" :> 50) @@ ("3" :> 51) @@ ("5" :> 53) @@ ("6" :> 54)
    @@ ("7" :> 55) @@ ("8" :> 56) @@ ("9" :> 57) @@ (":" :> 58) @@ ("[" :> 91)
    @@ ("]" :> 93) @@ ("a" :> 97) @@ ("b" :> 98) @@ ("c" :> 99) @@ ("e" :> 101)
    @@ ("h" :> 104) @@ ("m" :> 109) @@ ("o" :> 111) @@ ("p" :> 112)
    @@ ("r" :> 114) @@ ("s" :> 115) @@ ("t" :> 116) @@ ("{" :> 123)
    @@ ("}" :> 125)

\* str.encode(): json.dumps output is ASCII (ensure_ascii), one byte a character
str_encode(text) == [i \in 1..Len(text) |-> Ascii[text[i]]]

\* bytes.decode(): UnicodeDecodeError on a byte that is no character
bytes_decode(bs) ==
    IF \A i \in 1..Len(bs) : \E c \in DOMAIN Ascii : Ascii[c] = bs[i]
    THEN Ok([i \in 1..Len(bs) |-> CHOOSE c \in DOMAIN Ascii : Ascii[c] = bs[i]])
    ELSE Raise("UnicodeDecodeError")

\* obj.get(key, default): AttributeError when obj is not a dict
py_get(obj, key, default) ==
    IF obj.t # "obj" THEN Raise("AttributeError: no attribute 'get'")
    ELSE IF \E i \in 1..Len(obj.items) : obj.items[i][1] = key
    THEN Ok(obj.items[CHOOSE i \in 1..Len(obj.items) : obj.items[i][1] = key][2])
    ELSE Ok(default)

\* ------------------------------------------------------------------------
\* ml_model.py
\* ------------------------------------------------------------------------
\* predict_risk(hr, spo2, temp, radiation): the classifier's answer is a
\* function of the four features; numpy/sklearn raise ValueError when a
\* feature is not a number.
predict_risk(hr, spo2, temp, radiation) ==
    IF hr.t = "num" /\ spo2.t = "num" /\ temp.t = "num"
    THEN Ok([risk_of |-> <<hr.lit, spo2.lit, temp.lit, radiation>>])
    ELSE Raise("ValueError: could not convert string to float")

\* ------------------------------------------------------------------------
\* biosat_core/quantum_sim.py
\* ------------------------------------------------------------------------
\* The outcomes of the random draws of one session, one per photon:
\*   a_bits, a_bases  random_bits(n), random_bases(n) of the sender
\*   arrive_u         np.random.rand(n), in ppm of [0, 1)
\*   b_bases          random_bases(n) of the receiver
\*   flip_u           random.random() of the error draw, in ppm of [0, 1)
\*   b_rand           random.randint(0, 1) of a mismatched measurement
\*   sample_seed      selects the outcome of random.sample
None == -1

\* str(b) for a receiver outcome
pystr(b) == IF b = None THEN <<"N", "o", "n", "e">> ELSE IF b = 1 THEN <<"1">> ELSE <<"0">>

\* random.sample(range(m), k): k pairwise distinct indices of 0..m-1; the
\* outcomes modelled are the runs of k consecutive indices (cyclically)
\* starting at seed % m.
py_random_sample(m, k, seed) == [j \in 1..k |-> (seed + j - 1) % m]

RECURSIVE Gcd(_, _)
Gcd(a, b) == IF b = 0 THEN a ELSE Gcd(b, a % b)

\* -p*log2(p) - (1-p)*log2(1-p) in ppm, rounded up, for p = num/den in lowest
\* terms with den <= 8 (with these values the secure-bit count below equals
\* the floating-point one for every sifted length up to 600).
EntropyTable ==
    (<<1, 2>> :> 1000000) @@ (<<1, 3>> :> 918296) @@ (<<2, 3>> :> 918296)
    @@ (<<1, 4>> :> 811279) @@ (<<3, 4>> :> 811279) @@ (<<1, 5>> :> 721929)
    @@ (<<2, 5>> :> 970951) @@ (<<3, 5>> :> 970951) @@ (<<4, 5>> :> 721929)
    @@ (<<1, 6>> :> 650023) @@ (<<5, 6>> :> 650023) @@ (<<1, 7>> :> 591673)
    @@ (<<2, 7>> :> 863121) @@ (<<3, 7>> :> 985229) @@ (<<4, 7>> :> 985229)
    @@ (<<5, 7>> :> 863121) @@ (<<6, 7>> :> 591673) @@ (<<1, 8>> :> 543565)
    @@ (<<3, 8>> :> 954435) @@ (<<5, 8>> :> 954435) @@ (<<7, 8>> :> 543565)

\* bin_entropy(p), p = q.num / q.den, in ppm
bin_entropy(q) ==
    IF q.num <= 0 \/ q.num >= q.den THEN 0
    ELSE LET g == Gcd(q.num, q.den)
         IN  EntropyTable[<<q.num \div g, q.den \div g>>]

LEAK_EC_PPM == 100000

\* 0.2, the sampled fraction, as 1/5
SAMPLE_DIVISOR == 5

BasesOf == {"Z", "X"}

\* line 27 with the basis comparison left out
is_sifted_any_basis(arrives, a_bases, b_bases, i) == arrives[i]

\* line 27: photon i (1-based) is kept when it arrived and the bases agree
is_sifted(arrives, a_bases, b_bases, i) == arrives[i] /\ a_bases[i] = b_bases[i]

\* line 30: max(1, int(0.2 * len(a_sift))) if a_sift else 0
sample_size_of(n_sift) == IF n_sift > 0 THEN Max(1, n_sift \div SAMPLE_DIVISOR) ELSE 0

\* lines 32-34 without the guard of line 31: errors / sample_size whatever
\* the sample size is
qber_of_unguarded(a_sift, b_sift, sample_size, seed) ==
    LET sample_idx == py_random_sample(Max(1, Len(a_sift)), sample_size, seed)
        errors == Cardinality({j \in 1..sample_size :
                     a_sift[sample_idx[j] + 1] # b_sift[sample_idx[j] + 1]})
    IN  [num |-> errors, den |-> sample_size]

\* lines 31-36: the error rate on the sample as the fraction num / den
\* (0.0 is 0 / 1)
qber_of(a_sift, b_sift, sample_size, seed) ==
    IF sample_size > 0 /\ Len(a_sift) >= sample_size
    THEN LET sample_idx == py_random_sample(Len(a_sift), sample_size, seed)
             errors == Cardinality({j \in 1..sample_size :
                          a_sift[sample_idx[j] + 1] # b_sift[sample_idx[j] + 1]})
         IN  [num |-> errors, den |-> sample_size]
    ELSE [num |-> 0, den |-> 1]

\* line 40 returning the whole sifted string
demo_key_untruncated(sifted_key, R_secure) == sifted_key

\* line 40: demo_key = sifted_key[:R_secure]
demo_key(sifted_key, R_secure) == Take(sifted_key, R_secure)

\* transmit_bb84(n_photons, trans_prob, error_prob), probabilities in ppm,
\* rnd the outcomes of its random draws.
transmit_bb84(n_photons, trans_prob, error_prob, rnd) ==
    Bind(Strict([i \in 1..n_photons |-> rnd.arrive_u[i] < trans_prob]), LAMBDA arrives :
    Bind(Strict([i \in 1..n_photons |->
            IF ~arrives[i] THEN None
            ELSE IF rnd.a_bases[i] = rnd.b_bases[i]
            THEN IF rnd.flip_u[i] < error_prob
                 THEN 1 - rnd.a_bits[i]
                 ELSE rnd.a_bits[i]
            ELSE rnd.b_rand[i]]), LAMBDA b_results :
    \* 1-based photon indices, ascending
    Bind(SelectRange([i \in 1..n_photons |-> is_sifted(arrives, rnd.a_bases, rnd.b_bases, i)],
                     1, n_photons), LAMBDA sifted_indices :
    Bind(Strict([k \in 1..Len(sifted_indices) |-> rnd.a_bits[sifted_indices[k]]]), LAMBDA a_sift :
    Bind(Strict([k \in 1..Len(sifted_indices) |-> b_results[sifted_indices[k]]]), LAMBDA b_sift :
    Bind(sample_size_of(Len(a_sift)), LAMBDA sample_size :
    Bind(qber_of(a_sift, b_sift, sample_size, rnd.sample_seed), LAMBDA qber :
    Bind(Max(0, (Len(a_sift) * Max(0, Million - bin_entropy(qber) - LEAK_EC_PPM)) \div Million),
         LAMBDA R_secure :
    Bind(Concat([k \in 1..Len(b_sift) |-> pystr(b_sift[k])]), LAMBDA sifted_key :
        [n_sent |-> n_photons, n_sifted |-> Len(a_sift), qber |-> qber,
         R_secure_bits |-> R_secure, sifted_key |-> demo_key(sifted_key, R_secure)])))))))))

\* np.exp(-loss_coeff * d_km) in ppm at the distances the model uses
ExpTable == (0 :> 1000000) @@ (500 :> 548812) @@ (1000 :> 301194)

\* trans_prob_from_distance(d_km), loss_coeff = 0.0012
trans_prob_from_distance(d_km) == ExpTable[d_km]

\* ------------------------------------------------------------------------
\* biosat_core/orbit_sim.py
\* ------------------------------------------------------------------------
R_EARTH_KM == 6371

\* cos and sin of the angles (degrees) the model uses
CosDeg == (0 :> 1) @@ (90 :> 0) @@ (180 :> -1)

SinDeg == (0 :> 0) @@ (90 :> 1) @@ (180 :> 0)

\* floor of the square root
ISqrt(v) == CHOOSE r \in 0..(2 * R_EARTH_KM + 2000) : r * r <= v /\ v < (r + 1) * (r + 1)

\* sat_ground_distance_km(alt_km, gs_lat_deg, gs_lon_deg, sat_lat_deg, sat_lon_deg)
sat_ground_distance_km(alt_km, gs_lat_deg, gs_lon_deg, sat_lat_deg, sat_lon_deg) ==
    LET sph_to_cart(lat, lon, r) ==
            <<r * CosDeg[lat] * CosDeg[lon], r * CosDeg[lat] * SinDeg[lon], r * SinDeg[lat]>>
        sat_cart == sph_to_cart(sat_lat_deg, sat_lon_deg, R_EARTH_KM + alt_km)
        gs_cart == sph_to_cart(gs_lat_deg, gs_lon_deg, R_EARTH_KM)
        sq(x) == x * x
    IN  ISqrt(sq(sat_cart[1] - gs_cart[1]) + sq(sat_cart[2] - gs_cart[2])
              + sq(sat_cart[3] - gs_cart[3]))

\* ------------------------------------------------------------------------
\* backend/main.py: the handlers as functions of the globals they read
\* ------------------------------------------------------------------------
CHUNK_BITS == 128

GS_LAT == 0

GS_LON == 0

DEFAULT_RADIATION_PPM == 100000

EmptyDict == [present |-> FALSE]

NoResponse == [status |-> "none"]

NoCall == <<>>

\* float(text) for the query strings of the model
py_float(text) ==
    IF text = "0.5" THEN Ok(500000) ELSE Raise("ValueError: could not convert string to float")

\* float(request.query_params.get("radiation", 0.1)), ValueError -> 0.1
radiation_of(query_radiation) ==
    IF query_radiation = "absent" THEN DEFAULT_RADIATION_PPM
    ELSE LET f == py_float(query_radiation)
         IN  IF f.ok THEN f.val ELSE DEFAULT_RADIATION_PPM

\* What a handler run leaves behind: the globals, whether it returned, the
\* response or the exception that ended it, the chunk it withdrew, the
\* argument lists of its predict_risk calls, and how the cipher round trip
\* went ("unused", "ok", "failed").
Returned(buf, response, key_bits, calls, cipher) ==
    [KEY_BUFFER |-> buf, returned |-> TRUE, response |-> response, exc |-> "",
     key_bits |-> key_bits, calls |-> calls, cipher |-> cipher]

Raised(buf, exc, key_bits, calls, cipher) ==
    [KEY_BUFFER |-> buf, returned |-> FALSE, response |-> NoResponse, exc |-> exc,
     key_bits |-> key_bits, calls |-> calls, cipher |-> cipher]

\* the three telemetry.get(...) of a predict_risk call, then the call
risk_call(telemetry, radiation) ==
    Bind(py_get(telemetry, KeyHr, JNum(Lit75)), LAMBDA hr :
    Bind(py_get(telemetry, KeySpo2, JNum(Lit98)), LAMBDA spo2 :
    Bind(py_get(telemetry, KeyTemp, JNum(Lit365)), LAMBDA temp :
        IF ~hr.ok THEN [ml |-> hr, calls |-> NoCall]
        ELSE [ml |-> predict_risk(hr.val, spo2.val, temp.val, radiation),
              calls |-> << <<hr.val, spo2.val, temp.val, radiation>> >>])))

\* withdraw without line 75: the chunk is read and the buffer kept
withdraw_keeps_chunk(buf) ==
    IF Len(buf) >= CHUNK_BITS
    THEN [taken |-> TRUE, key_bits |-> Take(buf, CHUNK_BITS), rest |-> buf]
    ELSE [taken |-> FALSE, key_bits |-> <<>>, rest |-> buf]

\* withdraw with both slices one character short: s[:127] and s[127:]
withdraw_short_chunk(buf) ==
    IF Len(buf) >= CHUNK_BITS
    THEN [taken |-> TRUE, key_bits |-> Take(buf, CHUNK_BITS - 1),
          rest |-> Drop(buf, CHUNK_BITS - 1)]
    ELSE [taken |-> FALSE, key_bits |-> <<>>, rest |-> buf]

\* withdraw with a slice one character off: s[129:] for s[128:]
withdraw_drops_extra(buf) ==
    IF Len(buf) >= CHUNK_BITS
    THEN [taken |-> TRUE, key_bits |-> Take(buf, CHUNK_BITS), rest |-> Drop(buf, CHUNK_BITS + 1)]
    ELSE [taken |-> FALSE, key_bits |-> <<>>, rest |-> buf]

\* withdraw taking the newest characters: s[-128:] and s[:-128]
withdraw_from_tail(buf) ==
    IF Len(buf) >= CHUNK_BITS
    THEN [taken |-> TRUE, key_bits |-> Drop(buf, Len(buf) - CHUNK_BITS),
          rest |-> Take(buf, Len(buf) - CHUNK_BITS)]
    ELSE [taken |-> FALSE, key_bits |-> <<>>, rest |-> buf]

\* lines 73-75: the guard and the withdrawal of the first 128 characters
withdraw(buf) ==
    IF Len(buf) >= CHUNK_BITS
    THEN [taken |-> TRUE, key_bits |-> Take(buf, CHUNK_BITS), rest |-> Drop(buf, CHUNK_BITS)]
    ELSE [taken |-> FALSE, key_bits |-> <<>>, rest |-> buf]

\* secured_response reporting the length read before the withdrawal
secured_response_stale_len(ml_res, buf) ==
    [status |-> "ok", secure |-> TRUE, ml |-> ml_res, key_buffer_len |-> Len(buf) + CHUNK_BITS]

\* line 92: the response of a secured ingest
secured_response(ml_res, buf) ==
    [status |-> "ok", secure |-> TRUE, ml |-> ml_res, key_buffer_len |-> Len(buf)]

\* line 100: the response of an unsecured ingest
unsecured_response(ml_res, buf) ==
    [status |-> "ok", secure |-> FALSE, ml |-> ml_res, reason |-> "not_enough_qkd_bits",
     key_buffer_len |-> Len(buf)]

\* the except branch keeping `telemetry = data` and going on to the
\* risk evaluator instead of returning
decryption_failed_falls_back(data, radiation, key_bits, buf) ==
    Bind(risk_call(data, radiation), LAMBDA rc :
        IF ~rc.ml.ok THEN Raised(buf, rc.ml.exc, key_bits, rc.calls, "failed")
        ELSE Returned(buf,
                      [status |-> "ok", secure |-> TRUE, ml |-> rc.ml.val,
                       key_buffer_len |-> Len(buf)],
                      key_bits, rc.calls, "failed"))

\* lines 82-84: the except branch of the round trip
decryption_failed(data, radiation, key_bits, buf) ==
    Returned(buf, [status |-> "error", error |-> "Decryption Failed", key_buffer_len |-> Len(buf)],
             key_bits, NoCall, "failed")

\* ingest from the return of `await request.json()` on: body is what that
\* call gave (a value, or JSONDecodeError), nonce what os.urandom gives,
\* decrypt_raises whether the cipher library raises from decrypt.
ingest(body, query_radiation, nonce, decrypt_raises, buf) ==
    IF ~body.ok THEN Raised(buf, body.exc, <<>>, NoCall, "unused")
    ELSE
    Bind(str_encode(json_dumps(body.val)), LAMBDA payload_bytes :
    Bind(radiation_of(query_radiation), LAMBDA radiation :
    Bind(withdraw(buf), LAMBDA w :
        IF w.taken
        THEN Bind(aesgcm_encrypt_with_bits(w.key_bits, payload_bytes, nonce), LAMBDA ct :
                 IF ~ct.ok THEN Raised(w.rest, ct.exc, w.key_bits, NoCall, "failed")
                 ELSE
                 Bind(IF decrypt_raises THEN Raise("InvalidTag")
                      ELSE aesgcm_decrypt_with_bits(w.key_bits, ct.val), LAMBDA pt :
                 Bind(IF pt.ok THEN bytes_decode(pt.val) ELSE pt, LAMBDA text :
                 Bind(IF text.ok THEN json_loads(text.val) ELSE text, LAMBDA telemetry :
                     IF ~telemetry.ok
                     THEN decryption_failed(body.val, radiation, w.key_bits, w.rest)
                     ELSE Bind(risk_call(telemetry.val, radiation), LAMBDA rc :
                              IF ~rc.ml.ok
                              THEN Raised(w.rest, rc.ml.exc, w.key_bits, rc.calls, "ok")
                              ELSE Returned(w.rest, secured_response(rc.ml.val, w.rest),
                                            w.key_bits, rc.calls, "ok"))))))
        ELSE Bind(risk_call(body.val, radiation), LAMBDA rc :
                 IF ~rc.ml.ok THEN Raised(w.rest, rc.ml.exc, <<>>, rc.calls, "unused")
                 ELSE Returned(w.rest, unsecured_response(rc.ml.val, w.rest),
                               <<>>, rc.calls, "unused")))))

\* the snapshot taken with the default geometry instead of the session's
last_qkd_of_default_geometry(d, trans_prob, res) ==
    [present |-> TRUE, distance_km |-> 0, trans_prob |-> Million,
     n_sent |-> res.n_sent, n_sifted |-> res.n_sifted, qber |-> res.qber,
     R_secure_bits |-> res.R_secure_bits, sifted_key |-> res.sifted_key]

\* line 60: the snapshot of a session
last_qkd_of(d, trans_prob, res) ==
    [present |-> TRUE, distance_km |-> d, trans_prob |-> trans_prob,
     n_sent |-> res.n_sent, n_sifted |-> res.n_sifted, qber |-> res.qber,
     R_secure_bits |-> res.R_secure_bits, sifted_key |-> res.sifted_key]

\* run_qkd with line 59 written as KEY_BUFFER = res["sifted_key"] + KEY_BUFFER
run_qkd_prepends(q, buf) ==
    Bind(sat_ground_distance_km(q.alt_km, GS_LAT, GS_LON, q.sat_lat, q.sat_lon), LAMBDA d :
    Bind(trans_prob_from_distance(d), LAMBDA trans_prob :
    Bind(transmit_bb84(q.n_photons, trans_prob, q.error_prob, q.rnd), LAMBDA res :
    Bind(res.sifted_key \o buf, LAMBDA buf2 :
    Bind(last_qkd_of(d, trans_prob, res), LAMBDA last :
        [KEY_BUFFER |-> buf2, LAST_QKD |-> last, res |-> res,
         response |-> [added_bits |-> res.R_secure_bits, key_buffer_len |-> Len(buf2),
                       qkd_stats |-> last]])))))

\* run_qkd(n_photons, alt_km, sat_lat, sat_lon, error_prob): q the query
\* parameters and the session's random outcomes.
run_qkd(q, buf) ==
    Bind(sat_ground_distance_km(q.alt_km, GS_LAT, GS_LON, q.sat_lat, q.sat_lon), LAMBDA d :
    Bind(trans_prob_from_distance(d), LAMBDA trans_prob :
    Bind(transmit_bb84(q.n_photons, trans_prob, q.error_prob, q.rnd), LAMBDA res :
    Bind(buf \o res.sifted_key, LAMBDA buf2 :
    Bind(last_qkd_of(d, trans_prob, res), LAMBDA last :
        [KEY_BUFFER |-> buf2, LAST_QKD |-> last, res |-> res,
         response |-> [added_bits |-> res.R_secure_bits, key_buffer_len |-> Len(buf2),
                       qkd_stats |-> last]])))))

\* status that hands out the snapshot and resets it
status_resets_snapshot(buf, last) ==
    [KEY_BUFFER |-> buf, LAST_QKD |-> EmptyDict,
     response |-> [key_buffer_len |-> Len(buf), last_qkd |-> last]]

\* status()
status(buf, last) ==
    [KEY_BUFFER |-> buf, LAST_QKD |-> last,
     response |-> [key_buffer_len |-> Len(buf), last_qkd |-> last]]

\* ------------------------------------------------------------------------
\* The requests of the model
\* ------------------------------------------------------------------------
SessionPhotons == 160

Never == Million - 1

\* every photon arrives, every basis pair matches, no flip is drawn
CleanTape(n) ==
    [a_bits |-> [i \in 1..n |-> IF i % 7 \in {1, 2, 4} THEN 1 ELSE 0],
     a_bases |-> [i \in 1..n |-> "Z"],
     arrive_u |-> [i \in 1..n |-> 0],
     b_bases |-> [i \in 1..n |-> "Z"],
     flip_u |-> [i \in 1..n |-> Never],
     b_rand |-> [i \in 1..n |-> 0],
     sample_seed |-> 0]

\* every second photon is lost on a lossy link, every third pair mismatches
LossyTape(n) ==
    [a_bits |-> [i \in 1..n |-> IF i % 5 < 2 THEN 1 ELSE 0],
     a_bases |-> [i \in 1..n |-> IF i % 3 = 0 THEN "X" ELSE "Z"],
     arrive_u |-> [i \in 1..n |-> IF i % 2 = 0 THEN Never ELSE 0],
     b_bases |-> [i \in 1..n |-> "Z"],
     flip_u |-> [i \in 1..n |-> Never],
     b_rand |-> [i \in 1..n |-> 1],
     sample_seed |-> 7]

Session(n, alt, lat, lon, err, rnd) ==
    [n_photons |-> n, alt_km |-> alt, sat_lat |-> lat, sat_lon |-> lon,
     error_prob |-> err, rnd |-> rnd]

\* /qkd/run_session requests: overhead at altitude 0 (no loss) without
\* noise, the default altitude 500 km with the default error_prob 0.02, and
\* an empty session.
SessionRequests ==
    { Session(SessionPhotons, 0, 0, 0, 0, CleanTape(SessionPhotons)),
      Session(SessionPhotons, 500, 0, 0, 20000, LossyTape(SessionPhotons)),
      Session(0, 500, 0, 0, 20000, CleanTape(0)) }

\* /ingest requests: what `await request.json()` gives (a JSON value, or
\* JSONDecodeError for a body that is not JSON) and the radiation query
\* parameter.
IngestRequest(body, query_radiation) == [body |-> body, query_radiation |-> query_radiation]

IngestRequests ==
    { IngestRequest(Ok(TelemetryRecord), "absent"),
      IngestRequest(Ok(TelemetryRecord), "0.5"),
      IngestRequest(Ok(TelemetryRecord), "abc"),
      IngestRequest(Ok(PartialRecord), "absent"),
      IngestRequest(Ok(TextFieldRecord), "absent"),
      IngestRequest(Ok(ListPayload), "0.5"),
      IngestRequest(Raise("JSONDecodeError"), "absent") }

\* os.urandom(12)
Nonces == {[i \in 1..NONCE_BYTES |-> 0], [i \in 1..NONCE_BYTES |-> 16 * i + 7]}

IngestIds == 1..MaxIngests

\* ------------------------------------------------------------------------
\* State
\* ------------------------------------------------------------------------
VARIABLES
    KEY_BUFFER,       \* main.py global: the key characters not yet withdrawn
    LAST_QKD,         \* main.py global: the last session's statistics
    pc,               \* per ingest request: "idle", "awaiting" (suspended in
                      \* `await request.json()`), "done"
    key_bits,         \* per ingest request: its local key_bits (<<>>: not set)
    ev,               \* the handler run that ended last
    appended,         \* history: all key material appended, in order
    withdrawn,        \* history: the requests that withdrew a chunk, in order
    total_appended,   \* history: characters appended
    total_withdrawn,  \* history: characters withdrawn
    n_sessions        \* run_qkd handlers run

vars == <<KEY_BUFFER, LAST_QKD, pc, key_bits, ev, appended, withdrawn,
          total_appended, total_withdrawn, n_sessions>>

NoInput == [kind |-> "none"]

Event(op, req, input, pre_buffer, pre_last, returned, response, exc, calls, cipher) ==
    [op |-> op, req |-> req, input |-> input, pre_buffer |-> pre_buffer,
     pre_last |-> pre_last, returned |-> returned, response |-> response,
     exc |-> exc, calls |-> calls, cipher |-> cipher]

Init ==
    /\ KEY_BUFFER = <<>>
    /\ LAST_QKD = EmptyDict
    /\ pc = [r \in IngestIds |-> "idle"]
    /\ key_bits = [r \in IngestIds |-> <<>>]
    /\ ev = Event("start", 0, NoInput, <<>>, EmptyDict, TRUE, NoResponse, "", NoCall, "unused")
    /\ appended = <<>>
    /\ withdrawn = <<>>
    /\ total_appended = 0
    /\ total_withdrawn = 0
    /\ n_sessions = 0

\* POST /qkd/run_session: the handler has no await, it runs in one step.
RunQkd(q) ==
    /\ n_sessions < MaxSessions
    /\ \E e \in {run_qkd(q, KEY_BUFFER)} :
           /\ KEY_BUFFER' = e.KEY_BUFFER
           /\ LAST_QKD' = e.LAST_QKD
           /\ ev' = Event("run_qkd", 0,
                          [kind |-> "session", n_photons |-> q.n_photons, alt_km |-> q.alt_km,
                           sat_lat |-> q.sat_lat, sat_lon |-> q.sat_lon,
                           error_prob |-> q.error_prob, res |-> e.res],
                          KEY_BUFFER, LAST_QKD, TRUE, e.response, "", NoCall, "unused")
           /\ appended' = appended \o e.res.sifted_key
           /\ total_appended' = total_appended + Len(e.res.sifted_key)
    /\ n_sessions' = n_sessions + 1
    /\ UNCHANGED <<pc, key_bits, withdrawn, total_withdrawn>>

\* POST /ingest, up to its suspension in `await request.json()`. Request
\* ids are handed out in order.
IngestStart(r) ==
    /\ pc[r] = "idle"
    /\ \A r2 \in IngestIds : r2 < r => pc[r2] # "idle"
    /\ pc' = [pc EXCEPT ![r] = "awaiting"]
    /\ UNCHANGED <<KEY_BUFFER, LAST_QKD, key_bits, ev, appended, withdrawn,
                   total_appended, total_withdrawn, n_sessions>>

\* The ingest handler from the return of `await request.json()` to its end.
IngestRun(r, body, query_radiation, nonce, decrypt_raises) ==
    /\ \E e \in {ingest(body, query_radiation, nonce, decrypt_raises, KEY_BUFFER)} :
           /\ KEY_BUFFER' = e.KEY_BUFFER
           /\ key_bits' = [key_bits EXCEPT ![r] = e.key_bits]
           /\ ev' = Event("ingest", r, [kind |-> "ingest", body |-> body],
                          KEY_BUFFER, LAST_QKD, e.returned, e.response, e.exc, e.calls,
                          e.cipher)
           /\ withdrawn' = IF e.key_bits # <<>> THEN Append(withdrawn, r) ELSE withdrawn
           /\ total_withdrawn' = total_withdrawn + Len(e.key_bits)
    /\ pc' = [pc EXCEPT ![r] = "done"]
    /\ UNCHANGED <<LAST_QKD, appended, total_appended, n_sessions>>

\* IngestResume with a suspension point between reading the chunk (line 74)
\* and removing it (line 75)
IngestResume_suspended_withdrawal(r, body, query_radiation, nonce, decrypt_raises) ==
    \/ /\ pc[r] = "awaiting"
       /\ Len(KEY_BUFFER) >= CHUNK_BITS
       /\ key_bits' = [key_bits EXCEPT ![r] = Take(KEY_BUFFER, CHUNK_BITS)]
       /\ pc' = [pc EXCEPT ![r] = "removing"]
       /\ UNCHANGED <<KEY_BUFFER, LAST_QKD, ev, appended, withdrawn, total_appended,
                      total_withdrawn, n_sessions>>
    \/ /\ pc[r] = "removing"
       /\ KEY_BUFFER' = Drop(KEY_BUFFER, CHUNK_BITS)
       /\ withdrawn' = Append(withdrawn, r)
       /\ total_withdrawn' = total_withdrawn + CHUNK_BITS
       /\ ev' = Event("ingest", r, [kind |-> "ingest", body |-> body], KEY_BUFFER, LAST_QKD,
                      TRUE, [status |-> "ok", secure |-> TRUE,
                             key_buffer_len |-> Len(Drop(KEY_BUFFER, CHUNK_BITS))],
                      "", NoCall, "ok")
       /\ pc' = [pc EXCEPT ![r] = "done"]
       /\ UNCHANGED <<LAST_QKD, key_bits, appended, total_appended, n_sessions>>
    \/ /\ pc[r] = "awaiting"
       /\ Len(KEY_BUFFER) < CHUNK_BITS
       /\ IngestRun(r, body, query_radiation, nonce, decrypt_raises)

\* POST /ingest, from the return of `await request.json()` to the end of the
\* handler: no await in between, one step.
IngestResume(r, body, query_radiation, nonce, decrypt_raises) ==
    /\ pc[r] = "awaiting"
    /\ IngestRun(r, body, query_radiation, nonce, decrypt_raises)

\* GET /status
Status ==
    /\ \E e \in {status(KEY_BUFFER, LAST_QKD)} :
           /\ KEY_BUFFER' = e.KEY_BUFFER
           /\ LAST_QKD' = e.LAST_QKD
           /\ ev' = Event("status", 0, NoInput, KEY_BUFFER, LAST_QKD, TRUE, e.response,
                          "", NoCall, "unused")
    /\ UNCHANGED <<pc, key_bits, appended, withdrawn, total_appended, total_withdrawn,
                   n_sessions>>

\* The draws an ingest makes: os.urandom and the cipher are reached only by
\* an ingest that withdraws a chunk.
NoncesDrawn == IF Len(KEY_BUFFER) >= CHUNK_BITS THEN Nonces ELSE {[i \in 1..NONCE_BYTES |-> 0]}

DecryptOutcomes == IF Len(KEY_BUFFER) >= CHUNK_BITS THEN BOOLEAN ELSE {FALSE}

Next ==
    \/ \E q \in SessionRequests : RunQkd(q)
    \/ \E r \in IngestIds : IngestStart(r)
    \/ \E r \in IngestIds, i \in IngestRequests, nonce \in NoncesDrawn, dr \in DecryptOutcomes :
          IngestResume(r, i.body, i.query_radiation, nonce, dr)
    \/ Status

Spec == Init /\ [][Next]_vars

\* ------------------------------------------------------------------------
\* transmit_bb84 called on its own: the parameters and the outcomes of the
\* random draws are chosen at the start, one step makes the call.
\* ------------------------------------------------------------------------
\* the draws made for one photon
PhotonDraw(a_bit, a_basis, b_basis, arrive_u, flip_u, b_rand) ==
    [a_bit |-> a_bit, a_basis |-> a_basis, b_basis |-> b_basis,
     arrive_u |-> arrive_u, flip_u |-> flip_u, b_rand |-> b_rand]

\* kept with bit 0; kept with bit 1; kept and flipped when error_prob
\* exceeds 0.01; lost unless trans_prob is 1; measured in the other basis
\* with the opposite outcome; lost unless trans_prob exceeds 0.4
PhotonDraws ==
    << PhotonDraw(0, "Z", "Z", 0, Never, 1),
       PhotonDraw(1, "X", "X", 0, Never, 0),
       PhotonDraw(1, "Z", "Z", 0, 10000, 0),
       PhotonDraw(0, "Z", "Z", Never, Never, 1),
       PhotonDraw(1, "Z", "X", 0, Never, 0),
       PhotonDraw(0, "X", "X", 400000, Never, 1) >>

\* the draws of n photons that repeat the pair of draws (p, q)
PairTape(n, p, q, seed) ==
    LET at(i) == IF i % 2 = 1 THEN PhotonDraws[p] ELSE PhotonDraws[q]
    IN  [a_bits |-> [i \in 1..n |-> at(i).a_bit],
         a_bases |-> [i \in 1..n |-> at(i).a_basis],
         arrive_u |-> [i \in 1..n |-> at(i).arrive_u],
         b_bases |-> [i \in 1..n |-> at(i).b_basis],
         flip_u |-> [i \in 1..n |-> at(i).flip_u],
         b_rand |-> [i \in 1..n |-> at(i).b_rand],
         sample_seed |-> seed]

\* probabilities of [0, 1] in ppm: 0, exp(-0.6), 1 and 0, 0.02, 1
TransProbs == {0, 548812, Million}

ErrorProbs == {0, 20000, Million}

SampleSeeds == {0, 3}

BB84Call(n_photons, trans_prob, error_prob, rnd) ==
    [kind |-> "transmit_bb84", n_photons |-> n_photons, trans_prob |-> trans_prob,
     error_prob |-> error_prob, rnd |-> rnd]

BB84Calls ==
    { BB84Call(n, tp, ep, PairTape(n, p, q, seed)) :
        n \in 0..MaxPhotons, tp \in TransProbs, ep \in ErrorProbs,
        p \in DOMAIN PhotonDraws, q \in DOMAIN PhotonDraws, seed \in SampleSeeds }

\* the globals of a freshly loaded main.py, no request made
Untouched ==
    /\ KEY_BUFFER = <<>>
    /\ LAST_QKD = EmptyDict
    /\ pc = [r \in IngestIds |-> "idle"]
    /\ key_bits = [r \in IngestIds |-> <<>>]
    /\ appended = <<>>
    /\ withdrawn = <<>>
    /\ total_appended = 0
    /\ total_withdrawn = 0
    /\ n_sessions = 0

BB84Init ==
    /\ Untouched
    /\ \E c \in BB84Calls :
          ev = Event("call", 0, c, <<>>, EmptyDict, FALSE, NoResponse, "", NoCall, "unused")

Transmit ==
    /\ ev.op = "call"
    /\ ev.input.kind = "transmit_bb84"
    /\ \E res \in {transmit_bb84(ev.input.n_photons, ev.input.trans_prob,
                                  ev.input.error_prob, ev.input.rnd)} :
          ev' = [ev EXCEPT !.op = "transmit_bb84", !.returned = TRUE, !.response = res]
    /\ UNCHANGED <<KEY_BUFFER, LAST_QKD, pc, key_bits, appended, withdrawn,
                   total_appended, total_withdrawn, n_sessions>>

BB84Next == Transmit

BB84Spec == BB84Init /\ [][BB84Next]_vars

\* ------------------------------------------------------------------------
\* The session endpoint with any float as error_prob: FastAPI converts the
\* query parameter to float and passes it on (main.py:54).
\* ------------------------------------------------------------------------
\* error_prob = 1.5, 2.0 and -0.5, in ppm
OutOfRangeErrorProbs == {Million + Million \div 2, 2 * Million, 0 - Million \div 2}

AnySessionRequests ==
    SessionRequests
    \cup { Session(SessionPhotons, 0, 0, 0, ep, CleanTape(SessionPhotons)) :
             ep \in OutOfRangeErrorProbs }
    \cup { Session(SessionPhotons, alt, 0, 0, ep, LossyTape(SessionPhotons)) :
             alt \in {500, 1000}, ep \in OutOfRangeErrorProbs }

SessionsNext ==
    \/ \E q \in AnySessionRequests : RunQkd(q)
    \/ Status

SessionsSpec == Init /\ [][SessionsNext]_vars

\* ------------------------------------------------------------------------
\* crypto_utils called on its own: a key string, a plaintext and the nonce
\* os.urandom gives are chosen at the start; one step encrypts, the next
\* decrypts what the first returned.
\* ------------------------------------------------------------------------
KeyPatterns == 1..4

KeyChar(pattern, i) ==
    IF pattern = 1 THEN "0"
    ELSE IF pattern = 2 THEN "1"
    ELSE IF pattern = 3 THEN (IF i % 7 \in {1, 2, 4} THEN "1" ELSE "0")
    ELSE (IF i % 5 < 2 THEN "1" ELSE "0")

KeyLengths == {0, 8 * KEY_LENGTH_BYTES - 1, 8 * KEY_LENGTH_BYTES, 8 * KEY_LENGTH_BYTES + 1,
               8 * KEY_LENGTH_BYTES + MaxExtraKeyBits}

KeyStrings == {[i \in 1..len |-> KeyChar(pattern, i)] : len \in KeyLengths, pattern \in KeyPatterns}

Plaintexts ==
    {<<>>, <<0>>, <<255, 0>>} \cup {str_encode(json_dumps(v)) : v \in JsonPayloads}

CipherCall(bits, plaintext_bytes, nonce) ==
    [kind |-> "cipher", key_bits |-> bits, plaintext_bytes |-> plaintext_bytes, nonce |-> nonce]

CipherCalls == {CipherCall(k, pt, n) : k \in KeyStrings, pt \in Plaintexts, n \in Nonces}

\* a ciphertext to hand to decrypt when encrypt returned none: made under
\* the all-zero key
ForeignCiphertext(plaintext_bytes, nonce) ==
    nonce \o AESGCM_encrypt([j \in 1..KEY_LENGTH_BYTES |-> 0], nonce, plaintext_bytes)

CipherInit ==
    /\ Untouched
    /\ \E c \in CipherCalls :
          ev = Event("call", 0, c, <<>>, EmptyDict, FALSE, NoResponse, "", NoCall, "unused")

Encrypt ==
    /\ ev.op = "call"
    /\ ev.input.kind = "cipher"
    /\ \E ct \in {aesgcm_encrypt_with_bits(ev.input.key_bits, ev.input.plaintext_bytes,
                                           ev.input.nonce)} :
          ev' = [ev EXCEPT !.op = "aesgcm_encrypt_with_bits", !.returned = ct.ok,
                           !.response = [ct |-> ct]]
    /\ UNCHANGED <<KEY_BUFFER, LAST_QKD, pc, key_bits, appended, withdrawn,
                   total_appended, total_withdrawn, n_sessions>>

Decrypt ==
    /\ ev.op = "aesgcm_encrypt_with_bits"
    /\ \E data \in {IF ev.response.ct.ok THEN ev.response.ct.val
                     ELSE ForeignCiphertext(ev.input.plaintext_bytes, ev.input.nonce)} :
       \E pt \in {aesgcm_decrypt_with_bits(ev.input.key_bits, data)} :
          ev' = [ev EXCEPT !.op = "aesgcm_decrypt_with_bits", !.returned = pt.ok,
                           !.response = [ct |-> ev.response.ct, pt |-> pt]]
    /\ UNCHANGED <<KEY_BUFFER, LAST_QKD, pc, key_bits, appended, withdrawn,
                   total_appended, total_withdrawn, n_sessions>>

CipherNext == Encrypt \/ Decrypt

CipherSpec == CipherInit /\ [][CipherNext]_vars

\* ------------------------------------------------------------------------
\* The server under an unending stream of ingest calls: a request that has
\* ended frees its place for the next one.
\* ------------------------------------------------------------------------
\* the next request takes the place of one that ended
Recycle(r) ==
    /\ pc[r] = "done"
    /\ pc' = [pc EXCEPT ![r] = "idle"]
    /\ key_bits' = [key_bits EXCEPT ![r] = <<>>]
    /\ UNCHANGED <<KEY_BUFFER, LAST_QKD, ev, appended, withdrawn, total_appended,
                   total_withdrawn, n_sessions>>

IngestStarts == \E r \in IngestIds : IngestStart(r)

\* the sessions that produce key material
DrainSessionRequests == {q \in SessionRequests : q.n_photons > 0}

\* a telemetry record, a JSON body on which the handler raises, and a
\* body that is not JSON
DrainIngestRequests ==
    { IngestRequest(Ok(TelemetryRecord), "absent"),
      IngestRequest(Ok(ListPayload), "0.5"),
      IngestRequest(Raise("JSONDecodeError"), "absent") }

IngestResumes ==
    \E r \in IngestIds, i \in DrainIngestRequests, dr \in DecryptOutcomes :
        IngestResume(r, i.body, i.query_radiation, [k \in 1..NONCE_BYTES |-> 0], dr)

Recycles == \E r \in IngestIds : Recycle(r)

DrainNext ==
    \/ \E q \in DrainSessionRequests : RunQkd(q)
    \/ IngestStarts
    \/ IngestResumes
    \/ Recycles

\* the event loop lets a handler that ended go; that calls keep coming and
\* run is the hypothesis of the property, not an assumption made here
DrainSpec ==
    /\ Init
    /\ [][DrainNext]_vars
    /\ WF_vars(Recycles)

\* ------------------------------------------------------------------------
\* Properties
\* ------------------------------------------------------------------------
\* the k-th 128-character block of all the key material appended
ChunkAt(k) == SubSeq(appended, CHUNK_BITS * (k - 1) + 1, CHUNK_BITS * k)

IngestEnded == ev.op = "ingest"

\* C1: after any sequence of sessions and ingests from the empty buffer,
\* the characters ever appended are the characters ever withdrawn plus the
\* characters in the buffer.
C1_Conservation ==
    /\ total_appended = total_withdrawn + Len(KEY_BUFFER)
    /\ total_appended = Len(appended)
    /\ total_withdrawn = CHUNK_BITS * Len(withdrawn)

\* two sessions appended, a chunk was withdrawn, and key material is left
C1_Witness ==
    /\ n_sessions = 2
    /\ total_withdrawn = CHUNK_BITS
    /\ Len(KEY_BUFFER) > 0

\* C2: a withdrawing ingest takes exactly the first 128 characters of the
\* buffer and leaves the rest in order; the chunks withdrawn so far,
\* concatenated in withdrawal order, are a prefix of all the key material
\* appended (nothing twice, nothing before it was appended).
C2_FifoAtMostOnce ==
    /\ (IngestEnded /\ key_bits[ev.req] # <<>>) =>
           /\ Len(ev.pre_buffer) >= CHUNK_BITS
           /\ key_bits[ev.req] = Take(ev.pre_buffer, CHUNK_BITS)
           /\ KEY_BUFFER = Drop(ev.pre_buffer, CHUNK_BITS)
    /\ IsPrefix(Concat([k \in 1..Len(withdrawn) |-> key_bits[withdrawn[k]]]), appended)

\* an ingest has just withdrawn a second chunk from a buffer two sessions
\* filled, and characters are left behind it
C2_Witness ==
    /\ IngestEnded
    /\ Len(withdrawn) = 2
    /\ key_bits[ev.req] # <<>>
    /\ Len(ev.pre_buffer) > CHUNK_BITS

\* C3: an ingest of a JSON payload that finds at least 128 characters in
\* the buffer, and whose cipher round trip succeeds, returns secure = true
\* and leaves the buffer exactly 128 characters shorter.
C3_SecuredIngest ==
    (IngestEnded /\ ev.input.body.ok /\ Len(ev.pre_buffer) >= CHUNK_BITS /\ ev.cipher = "ok") =>
        /\ ev.returned
        /\ ev.response.status = "ok"
        /\ ev.response.secure
        /\ Len(KEY_BUFFER) = Len(ev.pre_buffer) - CHUNK_BITS

\* the reason the unsecured result carries, as main.py spells it
InsufficientKeyMaterial == "not_enough_qkd_bits"

\* the arguments that forward a record unmodified: its fields, with the
\* handler's defaults for missing ones
FieldOr(data, key, default) ==
    IF data.t = "obj" /\ \E i \in 1..Len(data.items) : data.items[i][1] = key
    THEN data.items[CHOOSE i \in 1..Len(data.items) : data.items[i][1] = key][2]
    ELSE default

RecordFields(data) ==
    <<FieldOr(data, KeyHr, JNum(Lit75)), FieldOr(data, KeySpo2, JNum(Lit98)),
      FieldOr(data, KeyTemp, JNum(Lit365))>>

\* C4: an ingest of a JSON payload that finds fewer than 128 characters in
\* the buffer returns secure = false with the insufficient-key reason,
\* forwards the original payload unmodified to the risk evaluator, and
\* leaves the buffer unchanged.
C4_UnsecuredFallback ==
    (IngestEnded /\ ev.input.body.ok /\ Len(ev.pre_buffer) < CHUNK_BITS) =>
        /\ KEY_BUFFER = ev.pre_buffer
        /\ key_bits[ev.req] = <<>>
        /\ ev.returned
        /\ ev.response.status = "ok"
        /\ ~ev.response.secure
        /\ ev.response.reason = InsufficientKeyMaterial
        /\ Len(ev.calls) = 1
        /\ SubSeq(ev.calls[1], 1, 3) = RecordFields(ev.input.body.val)

\* C5: under every interleaving of sessions and ingests, the k-th ingest
\* to withdraw holds exactly the k-th 128-character block of the key
\* material in append order, no two ingests hold the same block, and the
\* buffer is exactly what was appended behind the blocks withdrawn.
C5_LinearizableFifo ==
    /\ Len(appended) >= CHUNK_BITS * Len(withdrawn)
    /\ KEY_BUFFER = Drop(appended, CHUNK_BITS * Len(withdrawn))
    /\ \A k1, k2 \in 1..Len(withdrawn) : withdrawn[k1] = withdrawn[k2] => k1 = k2
    /\ \A r \in IngestIds :
          key_bits[r] # <<>> =>
              \E k \in 1..Len(withdrawn) : withdrawn[k] = r /\ key_bits[r] = ChunkAt(k)

\* two ingests were suspended together and the one that started second
\* withdrew first, after two sessions had appended
C5_Witness ==
    /\ withdrawn = <<2, 1>>
    /\ n_sessions = 2
    /\ key_bits[1] # key_bits[2]

\* C6: every result an ingest returns (secured, unsecured, decryption
\* failure) reports in key_buffer_len the length the buffer has when the
\* result is produced.
C6_ReportedLength ==
    (IngestEnded /\ ev.returned) => ev.response.key_buffer_len = Len(KEY_BUFFER)

\* a secured ingest returned and left characters in the buffer
C6_Witness ==
    /\ IngestEnded
    /\ ev.returned
    /\ ev.response.status = "ok"
    /\ ev.response.secure
    /\ Len(KEY_BUFFER) > 0

\* C7: when decrypting the freshly encrypted payload fails, the ingest
\* returns an error result, calls the risk evaluator with nothing, and the
\* buffer is the buffer before the call without its first 128 characters.
C7_DecryptionFailure ==
    (IngestEnded /\ ev.cipher = "failed") =>
        /\ ev.returned
        /\ ev.response.status = "error"
        /\ ev.calls = NoCall
        /\ Len(ev.pre_buffer) >= CHUNK_BITS
        /\ KEY_BUFFER = Drop(ev.pre_buffer, CHUNK_BITS)

\* the round trip of an ingest failed with more than a chunk in the buffer
C7_Witness ==
    /\ IngestEnded
    /\ ev.cipher = "failed"
    /\ Len(ev.pre_buffer) > CHUNK_BITS

\* C8: an ingest of a JSON payload ends by returning a result, whatever
\* the payload and the buffer; none withdraws a chunk and ends without one.
C8_TypedResult ==
    (IngestEnded /\ ev.input.body.ok) =>
        /\ ev.returned
        /\ ev.response.status \in {"ok", "error"}

\* C9: status returns the length of the buffer and leaves the buffer and
\* the last-session snapshot as they were.
C9_StatusReadOnly ==
    ev.op = "status" =>
        /\ KEY_BUFFER = ev.pre_buffer
        /\ LAST_QKD = ev.pre_last
        /\ ev.response.key_buffer_len = Len(KEY_BUFFER)
        /\ ev.response.last_qkd = ev.pre_last

\* status ran between a session and an ingest still suspended
C9_Witness ==
    /\ ev.op = "status"
    /\ LAST_QKD.present
    /\ Len(KEY_BUFFER) >= CHUNK_BITS
    /\ \E r \in IngestIds : pc[r] = "awaiting"

\* C10: the snapshot is empty before the first session; a session replaces
\* it with its own result, distance and transmission probability, so its
\* key is the material appended last; an ingest leaves it unchanged and
\* takes its key from the buffer alone.
C10_LastSessionSnapshot ==
    /\ n_sessions = 0 => LAST_QKD = EmptyDict
    /\ n_sessions > 0 =>
           /\ LAST_QKD.present
           /\ Len(LAST_QKD.sifted_key) <= Len(appended)
           /\ Drop(appended, Len(appended) - Len(LAST_QKD.sifted_key)) = LAST_QKD.sifted_key
    /\ ev.op = "run_qkd" =>
           LET d == sat_ground_distance_km(ev.input.alt_km, GS_LAT, GS_LON,
                                           ev.input.sat_lat, ev.input.sat_lon)
               res == ev.input.res
           IN  /\ LAST_QKD.present
               /\ LAST_QKD.distance_km = d
               /\ LAST_QKD.trans_prob = trans_prob_from_distance(d)
               /\ LAST_QKD.n_sent = ev.input.n_photons
               /\ LAST_QKD.n_sifted = res.n_sifted
               /\ LAST_QKD.qber = res.qber
               /\ LAST_QKD.R_secure_bits = res.R_secure_bits
               /\ LAST_QKD.sifted_key = res.sifted_key
    /\ IngestEnded =>
           /\ LAST_QKD = ev.pre_last
           /\ key_bits[ev.req] \in {<<>>, Take(ev.pre_buffer, CHUNK_BITS)}

\* a second session with another geometry has just replaced the snapshot
\* of the first
C10_Witness ==
    /\ ev.op = "run_qkd"
    /\ ev.pre_last.present
    /\ ev.pre_last.distance_km # LAST_QKD.distance_km
    /\ LAST_QKD.sifted_key # <<>>

\* a transmit_bb84 call made on its own has returned
Transmitted == ev.op = "transmit_bb84"

\* C11: whatever the photon count, the probabilities in [0, 1] and the
\* random outcomes, the result of transmit_bb84 has sifted <= sent,
\* secure bits <= sifted, 0 <= qber <= 1 and a key of exactly secure-bits
\* characters.
C11_ResultBounds ==
    Transmitted =>
        LET res == ev.response
        IN  /\ res.n_sent = ev.input.n_photons
            /\ 0 <= res.n_sifted /\ res.n_sifted <= res.n_sent
            /\ 0 <= res.R_secure_bits /\ res.R_secure_bits <= res.n_sifted
            /\ res.qber.den > 0
            /\ 0 <= res.qber.num /\ res.qber.num <= res.qber.den
            /\ Len(res.sifted_key) = res.R_secure_bits

\* a call that lost photons, kept several, measured errors and cut the key
C11_Witness ==
    /\ Transmitted
    /\ ev.response.n_sifted < ev.response.n_sent
    /\ 0 < ev.response.R_secure_bits
    /\ ev.response.R_secure_bits < ev.response.n_sifted
    /\ ev.response.qber.num > 0

\* C12: a session of zero photons returns sent = 0, sifted = 0, qber = 0
\* (a well-defined zero, no division by zero), secure bits = 0 and an empty
\* key, and the run_session that made it leaves the buffer as it was.
C12_EmptySession ==
    (ev.op = "run_qkd" /\ ev.input.n_photons = 0) =>
        /\ ev.returned
        /\ ev.input.res.n_sent = 0
        /\ ev.input.res.n_sifted = 0
        /\ ev.input.res.qber.num = 0
        /\ ev.input.res.qber.den > 0
        /\ ev.input.res.R_secure_bits = 0
        /\ ev.input.res.sifted_key = <<>>
        /\ ev.response.added_bits = 0
        /\ KEY_BUFFER = ev.pre_buffer

\* an empty session ran on a buffer that held key material
C12_Witness ==
    /\ ev.op = "run_qkd"
    /\ ev.input.n_photons = 0
    /\ ev.pre_buffer # <<>>
    /\ KEY_BUFFER # <<>>

\* C13: with s photons sifted, the QBER sample has max(1, ceil(0.2 * s))
\* positions when s > 0 and none when s = 0, and qber is the number of
\* mismatches on the sample over that size (0 when s = 0).
C13_SampleSize ==
    Transmitted =>
        LET s == ev.response.n_sifted
            qber == ev.response.qber
        IN  /\ s = 0 => qber.num = 0
            /\ s > 0 =>
                  /\ qber.den = Max(1, (s + SAMPLE_DIVISOR - 1) \div SAMPLE_DIVISOR)
                  /\ qber.num <= qber.den

\* C14: a run_session whose error probability (or transmission
\* probability) is outside [0, 1] is rejected before the simulation runs:
\* it returns no session result and leaves the key buffer and the
\* last-session snapshot as they were.
C14_InvalidParameterRejected ==
    (ev.op = "run_qkd" /\ ev.input.error_prob \notin 0..Million) =>
        /\ ~ev.returned
        /\ KEY_BUFFER = ev.pre_buffer
        /\ LAST_QKD = ev.pre_last

\* the photons of the call that arrived and were measured in the
\* sender's basis
KeptPhotons ==
    {i \in 1..ev.input.n_photons :
        /\ ev.input.rnd.arrive_u[i] < ev.input.trans_prob
        /\ ev.input.rnd.a_bases[i] = ev.input.rnd.b_bases[i]}

\* what the receiver measured on a kept photon
KeptOutcome(i) ==
    IF ev.input.rnd.flip_u[i] < ev.input.error_prob
    THEN 1 - ev.input.rnd.a_bits[i]
    ELSE ev.input.rnd.a_bits[i]

\* C15: the key is the receiver's outcomes on the first secure-bits kept
\* photons (arrived, bases equal) in ascending photon index: its k-th
\* character is the outcome of the k-th kept photon, sampled positions
\* included, and no other photon contributes.
C15_KeySelection ==
    Transmitted =>
        LET key == ev.response.sifted_key
        IN  /\ ev.response.n_sifted = Cardinality(KeptPhotons)
            /\ Len(key) = ev.response.R_secure_bits
            /\ Len(key) <= Cardinality(KeptPhotons)
            /\ \A k \in 1..Len(key) :
                  \E i \in KeptPhotons :
                      /\ Cardinality({j \in KeptPhotons : j <= i}) = k
                      /\ key[k] = (IF KeptOutcome(i) = 1 THEN "1" ELSE "0")

\* a key of both characters taken from a call in which photons were lost
\* or measured in the other basis between the kept ones
C15_Witness ==
    /\ Transmitted
    /\ Len(ev.response.sifted_key) >= 2
    /\ \E k \in 1..Len(ev.response.sifted_key) : ev.response.sifted_key[k] = "1"
    /\ \E i \in 1..ev.input.n_photons :
          /\ i \notin KeptPhotons
          /\ i < ev.input.n_photons
          /\ ev.input.rnd.b_rand[i] = 0

\* a cipher call made on its own has encrypted and decrypted
RoundTripped == ev.op = "aesgcm_decrypt_with_bits"

\* C16: for every key string of at least 128 bits, every plaintext (the
\* empty one included) and every nonce drawn, the encrypted payload is the
\* 12 nonce bytes, then as many ciphertext bytes as the plaintext has,
\* then 16 tag bytes, and decrypting it with the same key string gives the
\* plaintext back.
C16_AeadRoundTrip ==
    (RoundTripped /\ Len(ev.input.key_bits) >= 8 * KEY_LENGTH_BYTES) =>
        /\ ev.response.ct.ok
        /\ Len(ev.response.ct.val) = NONCE_BYTES + Len(ev.input.plaintext_bytes) + TAG_BYTES
        /\ Take(ev.response.ct.val, NONCE_BYTES) = ev.input.nonce
        /\ \A i \in 1..Len(ev.input.plaintext_bytes) :
              ev.response.ct.val[NONCE_BYTES + i].kind = "ct"
        /\ \A j \in 1..TAG_BYTES :
              ev.response.ct.val[NONCE_BYTES + Len(ev.input.plaintext_bytes) + j].kind = "tag"
        /\ ev.response.pt = Ok(ev.input.plaintext_bytes)

\* a JSON payload went through the round trip under a key string longer
\* than 128 bits and a nonce that is not all zero
C16_Witness ==
    /\ RoundTripped
    /\ Len(ev.input.key_bits) > 8 * KEY_LENGTH_BYTES
    /\ Len(ev.input.plaintext_bytes) > 2
    /\ ev.input.nonce[1] # 0
    /\ ev.response.pt.ok

\* the value of the j-th group of eight characters of a bit string, most
\* significant first
OctetValue(bits, j) ==
    LET d(k) == IF bits[8 * (j - 1) + k] = "1" THEN 1 ELSE 0
    IN  ((((((d(1) * 2 + d(2)) * 2 + d(3)) * 2 + d(4)) * 2 + d(5)) * 2 + d(6)) * 2 + d(7)) * 2 + d(8)

\* C17: with fewer than 128 bits, encrypt and decrypt both fail with the
\* not-enough-key-bits error and produce nothing else; with at least 128
\* bits the key the cipher is given is the 16 bytes that are the
\* big-endian value of the first 128 bits only.
C17_KeyDerivation ==
    RoundTripped =>
        /\ Len(ev.input.key_bits) < 8 * KEY_LENGTH_BYTES =>
              /\ ev.response.ct = Raise("ValueError: Not enough key bits")
              /\ ev.response.pt = Raise("ValueError: Not enough key bits")
        /\ Len(ev.input.key_bits) >= 8 * KEY_LENGTH_BYTES =>
              /\ ev.response.ct.ok
              /\ LET key == ev.response.ct.val[Len(ev.response.ct.val)].k
                  IN  /\ Len(key) = KEY_LENGTH_BYTES
                      /\ \A j \in 1..KEY_LENGTH_BYTES : key[j] = OctetValue(ev.input.key_bits, j)

\* encrypt and decrypt were called with 127 bits that are not all zero
C17_Witness ==
    /\ RoundTripped
    /\ Len(ev.input.key_bits) = 8 * KEY_LENGTH_BYTES - 1
    /\ \E i \in 1..Len(ev.input.key_bits) : ev.input.key_bits[i] = "1"
    /\ ~ev.response.ct.ok
    /\ ~ev.response.pt.ok

\* C18: a completed session leaves the buffer it found followed by
\* exactly that session's key; the buffer grows by the session's secure
\* bits, added_bits reports that growth, and key_buffer_len reports the
\* length found plus added_bits.
C18_AppendAccounting ==
    ev.op = "run_qkd" =>
        /\ ev.returned
        /\ KEY_BUFFER = ev.pre_buffer \o ev.input.res.sifted_key
        /\ Len(KEY_BUFFER) - Len(ev.pre_buffer) = ev.input.res.R_secure_bits
        /\ ev.response.added_bits = Len(KEY_BUFFER) - Len(ev.pre_buffer)
        /\ ev.response.key_buffer_len = Len(ev.pre_buffer) + ev.response.added_bits

\* a session appended a key behind characters that differ from it
C18_Witness ==
    /\ ev.op = "run_qkd"
    /\ ev.pre_buffer # <<>>
    /\ ev.response.added_bits > 0
    /\ ev.pre_buffer \o ev.input.res.sifted_key # ev.input.res.sifted_key \o ev.pre_buffer

\* C19: the buffer holds only the characters 0 and 1; every chunk an
\* ingest withdrew has exactly 128 binary characters, a key is derived
\* from it, and no ingest that found 128 characters ends in a key
\* derivation error.
C19_BinaryBuffer ==
    /\ \A i \in 1..Len(KEY_BUFFER) : KEY_BUFFER[i] \in BinaryChars
    /\ \A r \in IngestIds :
          key_bits[r] # <<>> =>
              /\ Len(key_bits[r]) = CHUNK_BITS
              /\ \A i \in 1..CHUNK_BITS : key_bits[r][i] \in BinaryChars
              /\ bits_to_bytes(key_bits[r], KEY_LENGTH_BYTES).ok
    /\ (IngestEnded /\ ev.input.body.ok /\ Len(ev.pre_buffer) >= CHUNK_BITS) =>
          /\ key_bits[ev.req] # <<>>
          /\ ev.cipher # "unused"
          /\ ev.exc \notin {"ValueError: Not enough key bits",
                            "ValueError: invalid literal for int() with base 2"}

\* an ingest encrypted under a chunk that begins with the key of a session
\* in which photons were lost and ends with the key of another session
C19_Witness ==
    /\ IngestEnded
    /\ ev.cipher = "ok"
    /\ n_sessions = 2
    /\ LAST_QKD.present
    /\ LAST_QKD.n_sifted = LAST_QKD.n_sent
    /\ \E k \in 1..(CHUNK_BITS - 1) : Take(appended, k) # Take(LAST_QKD.sifted_key, k)
    /\ Len(appended) < 2 * Len(LAST_QKD.sifted_key)

\* an ingest runs from its suspension to its end in this step
IngestCompletes == \E r \in IngestIds : pc[r] = "awaiting" /\ pc'[r] = "done"

\* the ingest that runs to its end in this step was called with a JSON
\* payload (its `await request.json()` returned a value)
JsonIngestCompletes == IngestCompletes /\ ev'.op = "ingest" /\ ev'.input.body.ok

\* C20: the ingests that withdrew a chunk never number more than
\* floor(characters appended / 128); an ingest that finds fewer than 128
\* characters takes the unsecured path and leaves the buffer as it is; and
\* when ingest calls with a JSON payload keep coming after the last
\* session, the buffer eventually holds fewer than 128 characters and
\* stays so.
C20_BufferDrain ==
    /\ [](Len(withdrawn) <= total_appended \div CHUNK_BITS)
    /\ [][(IngestCompletes /\ Len(KEY_BUFFER) < CHUNK_BITS) =>
              /\ KEY_BUFFER' = KEY_BUFFER
              /\ withdrawn' = withdrawn
              /\ ev'.cipher = "unused"]_vars
    /\ ([]<><<JsonIngestCompletes>>_vars => <>[](Len(KEY_BUFFER) < CHUNK_BITS))

\* after the last session and two withdrawals, an ingest found fewer than
\* 128 characters left and took the unsecured path
C20_Witness ==
    /\ n_sessions = MaxSessions
    /\ Len(withdrawn) >= 2
    /\ IngestEnded
    /\ ev.cipher = "unused"
    /\ 0 < Len(KEY_BUFFER)
    /\ Len(KEY_BUFFER) < CHUNK_BITS
    /\ KEY_BUFFER = ev.pre_buffer

=============================================================================
